---- MODULE Spec2Model ----
(***************************************************************************)
(* Resumable ingestion pipelines of the Tweede Kamer ingester:             *)
(*   batched_ingest.py  (Atom SyncFeed, skiptoken cursor in SQLite,        *)
(*                       parquet batches data/batch_<n>.parquet)           *)
(*   json_crawler.py    (OData feed, skip cursor in a JSON state file,     *)
(*                       shards/shard_<start>_<end>.jsonl)                 *)
(* One behaviour runs one of the two scripts, MaxRuns times in a row,      *)
(* against the same feed, the same local disk and the same remote repo.    *)
(***************************************************************************)
EXTENDS Integers, Sequences, FiniteSets, TLC

\* ---------------------------------------------------------------- bounds
MaxRuns == 2
NumPages == 3
MaxPageDocs == 2
MaxLimit == 3
MaxUploadBatch == 2
MaxFeedLen == 4
MaxBatchSize == 2
MaxShardSize == 2
MaxEntriesBound == 3
MaxPageEntries == 2
MaxTextTokens == 2
MaxEmitDocs == 1
MaxStateSkip == 3

\* Python's None for Optional[int] cursors and for "no row"/"no state file"
None == -2

VARIABLES
  prog,                    \* which script is run: "batched" or "crawler"
  run,                     \* number of the current run of main()
  pc,                      \* position of the running main()
  \* ---- batched_ingest.py
  TOTAL_DOCUMENT_LIMIT,    \* configuration
  UPLOAD_BATCH_SIZE,       \* configuration
  HF_REPO_ID,              \* configuration: TRUE when the environment variable is set
  feed,                    \* feed[p] = number of extractable entries of page p
  progress_db,             \* progress.sqlite3: skiptoken row, None when no row
  total_docs_collected,
  batch_number,
  docs_for_current_batch,
  current_skiptoken,
  next_skiptoken,
  push_docs,               \* push_batch_to_hf: argument docs
  push_ret,                \* push_batch_to_hf: where the call returns to
  collected,               \* history: records collected in this run, in order
  handed,                  \* history: records handed to push_batch_to_hf, all runs
  upload_failed,           \* history: some upload_file call of push_batch_to_hf raised
  pushes,                  \* history: the push_batch_to_hf calls of this run, in order
  save_calls,              \* history: number of save_skiptoken calls of this run
  fetch_failed,            \* history: the feed request failed in this run
  \* ---- json_crawler.py
  BATCH_SIZE,              \* configuration ($top)
  SHARD_SIZE,              \* configuration
  MAX_ENTRIES,             \* configuration
  HF_TOKEN,                \* configuration: TRUE when a token is available
  odata_len,               \* number of documents the OData feed holds
  state_file,              \* tk_state.json: the skip value, None when absent
  output_log,              \* tk_crawl.jsonl: one line per emitted document
  skip,
  total,
  attempt,
  repo_files,              \* push_to_hf: the listed remote paths
  lines,                   \* push_to_hf: the lines read from the output file
  i,                       \* push_to_hf: loop offset
  n,                       \* push_to_hf: count of new entries
  aborted,                 \* history: the for/else abort branch was taken in this run
  pre_run_skip,            \* history: persisted skip value when the run started
  slices,                  \* history: slices derived by the current push_to_hf call
  attempted,               \* history: remote paths upload_file was called with in this call
  list_ok,                 \* history: list_repo_files succeeded in this call
  had_all,                 \* history: at call start the store held every shard name of the file
  \* ---- shared environment
  \* ---- cursor store (save_state / load_state on their own)
  disk,                    \* tk_state.json as the file system holds it: whether it exists, and its chunks
  fbuf,                    \* save_state: chunks written to the open file object, not yet flushed
  new_state,               \* save_state: the skip value being saved
  old_state,               \* history: the skip value persisted before save_state was called
  loaded,                  \* load_state: its result, None before the call
  \* ---- extraction (fetch_api_page / emit_jsonl on their own)
  entries,                 \* fetch_api_page: the <entry> elements of the fetched page
  entry_idx,               \* fetch_api_page: position of the for loop
  processed_docs,          \* fetch_api_page: processed_docs
  emitted,                 \* emit_jsonl: the record lines written to the file
  exit_code,               \* exit status of the process, None while it runs
  hf_repo,                 \* remote dataset repository: set of files
  local_files              \* local shard artifacts on disk

bi_vars == <<TOTAL_DOCUMENT_LIMIT, UPLOAD_BATCH_SIZE, HF_REPO_ID, feed, progress_db,
             total_docs_collected, batch_number, docs_for_current_batch,
             current_skiptoken, next_skiptoken, push_docs, push_ret,
             collected, handed, upload_failed, pushes, save_calls, fetch_failed>>

jc_vars == <<BATCH_SIZE, SHARD_SIZE, MAX_ENTRIES, HF_TOKEN, odata_len,
             state_file, output_log, skip, total, attempt, repo_files,
             lines, i, n, aborted, pre_run_skip, slices, attempted,
             list_ok, had_all>>

ex_vars == <<entries, entry_idx, processed_docs, emitted>>

cs_vars == <<disk, fbuf, new_state, old_state, loaded>>

vars == <<prog, run, pc, bi_vars, jc_vars, ex_vars, cs_vars, exit_code, hf_repo, local_files>>

Min(a, b) == IF a < b THEN a ELSE b

Range(s) == {s[k] : k \in 1..Len(s)}

\* ======================================================= batched_ingest.py

\* The page a request with this skiptoken returns: the parameter is sent
\* only when skiptoken > 0, otherwise the feed starts at its first page.
PageOf(skiptoken) == IF skiptoken # None /\ skiptoken > 0 THEN skiptoken ELSE 1

\* The records fetch_api_page extracts from page p, in feed order.
PageDocs(p) == [k \in 1..feed[p] |-> <<p, k>>]

\* The skiptoken of the rel='next' link of page p; the last page has none.
NextToken(p) == IF p < Len(feed) THEN p + 1 ELSE None

\* get_skiptoken: the stored row, or -1 when there is no row.
get_skiptoken == IF progress_db # None THEN progress_db ELSE -1

\* new_docs[:remaining_limit]
Truncate(new_docs, remaining_limit) ==
  SubSeq(new_docs, 1, Min(Len(new_docs), remaining_limit))

\* the loop condition of main
LoopCond == total_docs_collected < TOTAL_DOCUMENT_LIMIT

\* the "batch is full" test with > in place of >=
BatchFull_Mut(docs) == Len(docs) > UPLOAD_BATCH_SIZE

\* the "batch is full" test of main
BatchFull(docs) == Len(docs) >= UPLOAD_BATCH_SIZE

\* local_parquet_path / repo_file_path of push_batch_to_hf
LocalParquetPath(b) == <<"data_batch", b>>
RepoFilePath(b) == <<"data/batch", b>>

\* api.upload_file: the file at this path is created or replaced
UploadFile(path, content) ==
  {f \in hf_repo : f.path # path} \cup {[path |-> path, content |-> content, run |-> run]}

BI_Unchanged == UNCHANGED <<prog, run, jc_vars, ex_vars, cs_vars, TOTAL_DOCUMENT_LIMIT,
                            UPLOAD_BATCH_SIZE, HF_REPO_ID, feed>>

\* main, lines 234-241: fresh locals, read the persisted cursor
\* (a failing read is answered with -1 as well)
BI_Start ==
  /\ prog = "batched" /\ pc = "bi_start"
  /\ HF_REPO_ID
  /\ pushes' = <<>> /\ save_calls' = 0 /\ fetch_failed' = FALSE
  /\ total_docs_collected' = 0
  /\ batch_number' = 1
  /\ docs_for_current_batch' = <<>>
  /\ \/ current_skiptoken' = get_skiptoken
     \/ current_skiptoken' = -1
  /\ next_skiptoken' = None
  /\ collected' = <<>>
  /\ pc' = "bi_loop"
  /\ UNCHANGED <<progress_db, push_docs, push_ret, handed, upload_failed, hf_repo, local_files>>
  /\ UNCHANGED <<exit_code>>
  /\ BI_Unchanged

\* main lines 229-232: HF_REPO_ID is not set, main logs an error and returns
BI_NoRepoId ==
  /\ prog = "batched" /\ pc = "bi_start"
  /\ ~HF_REPO_ID
  /\ pc' = "bi_done"
  /\ exit_code' = 0
  /\ UNCHANGED <<progress_db, total_docs_collected, batch_number, docs_for_current_batch,
                 current_skiptoken, next_skiptoken, push_docs, push_ret, collected,
                 handed, upload_failed, hf_repo, local_files>>
  /\ UNCHANGED <<pushes, save_calls, fetch_failed>>
  /\ BI_Unchanged

\* while condition false: leave the loop
BI_LoopExit ==
  /\ prog = "batched" /\ pc = "bi_loop"
  /\ ~LoopCond
  /\ pc' = "bi_final"
  /\ UNCHANGED <<progress_db, total_docs_collected, batch_number, docs_for_current_batch,
                 current_skiptoken, next_skiptoken, push_docs, push_ret, collected,
                 handed, upload_failed, hf_repo, local_files>>
  /\ UNCHANGED <<pushes, save_calls, fetch_failed, exit_code>>
  /\ BI_Unchanged

\* fetch_api_page fails (RequestException): returns [], None and main breaks
BI_FetchFail ==
  /\ prog = "batched" /\ pc = "bi_loop"
  /\ LoopCond
  /\ fetch_failed' = TRUE
  /\ next_skiptoken' = None
  /\ pc' = "bi_final"
  /\ UNCHANGED <<progress_db, total_docs_collected, batch_number, docs_for_current_batch,
                 current_skiptoken, push_docs, push_ret, collected,
                 handed, upload_failed, hf_repo, local_files>>
  /\ UNCHANGED <<pushes, save_calls, exit_code>>
  /\ BI_Unchanged

\* fetch_api_page succeeds; main lines 244-258
BI_FetchPage ==
  /\ prog = "batched" /\ pc = "bi_loop"
  /\ LoopCond
  /\ LET remaining_limit == TOTAL_DOCUMENT_LIMIT - total_docs_collected
         p == PageOf(current_skiptoken)
         new_docs == PageDocs(p)
         docs_to_add == Truncate(new_docs, remaining_limit)
     IN /\ next_skiptoken' = NextToken(p)
        /\ IF Len(new_docs) = 0 /\ NextToken(p) = None
           THEN /\ pc' = "bi_final"
                /\ UNCHANGED <<docs_for_current_batch, total_docs_collected, collected>>
           ELSE /\ docs_for_current_batch' = docs_for_current_batch \o docs_to_add
                /\ total_docs_collected' = total_docs_collected + Len(docs_to_add)
                /\ collected' = collected \o docs_to_add
                /\ pc' = "bi_check"
  /\ UNCHANGED <<progress_db, batch_number, current_skiptoken, push_docs, push_ret,
                 handed, upload_failed, hf_repo, local_files>>
  /\ UNCHANGED <<pushes, save_calls, fetch_failed, exit_code>>
  /\ BI_Unchanged

\* main line 261-262: the batch is full, call push_batch_to_hf
BI_BatchFull ==
  /\ prog = "batched" /\ pc = "bi_check"
  /\ BatchFull(docs_for_current_batch)
  /\ push_docs' = docs_for_current_batch
  /\ push_ret' = "bi_saved"
  /\ pushes' = Append(pushes, [batch |-> batch_number, docs |-> docs_for_current_batch])
  /\ handed' = handed \cup Range(docs_for_current_batch)
  /\ pc' = "push_write"
  /\ UNCHANGED <<progress_db, total_docs_collected, batch_number, docs_for_current_batch,
                 current_skiptoken, next_skiptoken, collected, upload_failed, hf_repo,
                 local_files>>
  /\ UNCHANGED <<save_calls, fetch_failed, exit_code>>
  /\ BI_Unchanged

\* main line 261: the batch is not full
BI_BatchNotFull ==
  /\ prog = "batched" /\ pc = "bi_check"
  /\ ~BatchFull(docs_for_current_batch)
  /\ pc' = "bi_advance"
  /\ UNCHANGED <<progress_db, total_docs_collected, batch_number, docs_for_current_batch,
                 current_skiptoken, next_skiptoken, push_docs, push_ret, collected,
                 handed, upload_failed, hf_repo, local_files>>
  /\ UNCHANGED <<pushes, save_calls, fetch_failed, exit_code>>
  /\ BI_Unchanged

\* save_skiptoken: REPLACE INTO progress; a sqlite error is logged and the
\* row keeps its value
save_skiptoken(skiptoken) ==
  \/ progress_db' = skiptoken
  \/ progress_db' = progress_db

\* the step after a push that forgets to reset the batch
BI_SaveAfterPush_Mut ==
  /\ prog = "batched" /\ pc = "bi_saved"
  /\ IF current_skiptoken # None
     THEN save_skiptoken(current_skiptoken) /\ save_calls' = save_calls + 1
     ELSE progress_db' = progress_db /\ save_calls' = save_calls
  /\ batch_number' = batch_number + 1
  /\ pc' = "bi_advance"
  /\ UNCHANGED <<total_docs_collected, current_skiptoken, next_skiptoken, push_docs,
                 push_ret, collected, handed, upload_failed, hf_repo, local_files,
                 docs_for_current_batch>>
  /\ UNCHANGED <<pushes, fetch_failed, exit_code>>
  /\ BI_Unchanged

\* main lines 264-267, after push_batch_to_hf has returned
BI_SaveAfterPush ==
  /\ prog = "batched" /\ pc = "bi_saved"
  /\ IF current_skiptoken # None
     THEN save_skiptoken(current_skiptoken) /\ save_calls' = save_calls + 1
     ELSE progress_db' = progress_db /\ save_calls' = save_calls
  /\ batch_number' = batch_number + 1
  /\ docs_for_current_batch' = <<>>
  /\ pc' = "bi_advance"
  /\ UNCHANGED <<total_docs_collected, current_skiptoken, next_skiptoken, push_docs,
                 push_ret, collected, handed, upload_failed, hf_repo, local_files>>
  /\ UNCHANGED <<pushes, fetch_failed, exit_code>>
  /\ BI_Unchanged

\* the cursor update that keeps the old skiptoken when a next one exists
BI_Advance_Mut ==
  /\ prog = "batched" /\ pc = "bi_advance"
  /\ current_skiptoken' = IF next_skiptoken = None THEN None ELSE current_skiptoken
  /\ pc' = IF next_skiptoken = None THEN "bi_final" ELSE "bi_loop"
  /\ UNCHANGED <<progress_db, total_docs_collected, batch_number, docs_for_current_batch,
                 next_skiptoken, push_docs, push_ret, collected, handed, upload_failed,
                 hf_repo, local_files>>
  /\ UNCHANGED <<pushes, save_calls, fetch_failed, exit_code>>
  /\ BI_Unchanged

\* main lines 270-273
BI_Advance ==
  /\ prog = "batched" /\ pc = "bi_advance"
  /\ current_skiptoken' = next_skiptoken
  /\ pc' = IF next_skiptoken = None THEN "bi_final" ELSE "bi_loop"
  /\ UNCHANGED <<progress_db, total_docs_collected, batch_number, docs_for_current_batch,
                 next_skiptoken, push_docs, push_ret, collected, handed, upload_failed,
                 hf_repo, local_files>>
  /\ UNCHANGED <<pushes, save_calls, fetch_failed, exit_code>>
  /\ BI_Unchanged

\* main lines 276-278: push what is left
BI_FinalPush ==
  /\ prog = "batched" /\ pc = "bi_final"
  /\ IF Len(docs_for_current_batch) > 0
     THEN /\ push_docs' = docs_for_current_batch
          /\ push_ret' = "bi_final_save"
          /\ handed' = handed \cup Range(docs_for_current_batch)
          /\ pushes' = Append(pushes, [batch |-> batch_number, docs |-> docs_for_current_batch])
          /\ pc' = "push_write"
     ELSE /\ pc' = "bi_final_save"
          /\ UNCHANGED <<push_docs, push_ret, handed, pushes>>
  /\ UNCHANGED <<progress_db, total_docs_collected, batch_number, docs_for_current_batch,
                 current_skiptoken, next_skiptoken, collected, upload_failed, hf_repo,
                 local_files>>
  /\ UNCHANGED <<save_calls, fetch_failed, exit_code>>
  /\ BI_Unchanged

\* the final save without its "is not None" guard
BI_FinalSave_Mut ==
  /\ prog = "batched" /\ pc = "bi_final_save"
  /\ save_skiptoken(current_skiptoken) /\ save_calls' = save_calls + 1
  /\ pc' = "bi_done"
  /\ exit_code' = 0
  /\ UNCHANGED <<total_docs_collected, batch_number, docs_for_current_batch,
                 current_skiptoken, next_skiptoken, push_docs, push_ret, collected,
                 handed, upload_failed, hf_repo, local_files>>
  /\ UNCHANGED <<pushes, fetch_failed>>
  /\ BI_Unchanged

\* main lines 281-282: save the final skiptoken
BI_FinalSave ==
  /\ prog = "batched" /\ pc = "bi_final_save"
  /\ IF current_skiptoken # None
     THEN save_skiptoken(current_skiptoken) /\ save_calls' = save_calls + 1
     ELSE progress_db' = progress_db /\ save_calls' = save_calls
  /\ pc' = "bi_done"
  /\ exit_code' = 0
  /\ UNCHANGED <<total_docs_collected, batch_number, docs_for_current_batch,
                 current_skiptoken, next_skiptoken, push_docs, push_ret, collected,
                 handed, upload_failed, hf_repo, local_files>>
  /\ UNCHANGED <<pushes, fetch_failed>>
  /\ BI_Unchanged

\* ---- push_batch_to_hf(docs, repo_id, batch_number); docs is never empty here
\* because both call sites pass a non-empty batch (the empty case returns at once)

\* lines 203-204: the batch is written to the local parquet file
BI_PushWrite ==
  /\ prog = "batched" /\ pc = "push_write"
  /\ local_files' = local_files \cup {LocalParquetPath(batch_number)}
  /\ pc' = "push_upload"
  /\ UNCHANGED <<progress_db, total_docs_collected, batch_number, docs_for_current_batch,
                 current_skiptoken, next_skiptoken, push_docs, push_ret, collected,
                 handed, upload_failed, hf_repo>>
  /\ UNCHANGED <<pushes, save_calls, fetch_failed, exit_code>>
  /\ BI_Unchanged

\* lines 208-214: upload_file succeeds
BI_UploadOk ==
  /\ prog = "batched" /\ pc = "push_upload"
  /\ hf_repo' = UploadFile(RepoFilePath(batch_number), push_docs)
  /\ pc' = "push_cleanup"
  /\ UNCHANGED <<progress_db, total_docs_collected, batch_number, docs_for_current_batch,
                 current_skiptoken, next_skiptoken, push_docs, push_ret, collected,
                 handed, upload_failed, local_files>>
  /\ UNCHANGED <<pushes, save_calls, fetch_failed, exit_code>>
  /\ BI_Unchanged

\* lines 216-217: upload_file raises, the exception is logged
BI_UploadFail ==
  /\ prog = "batched" /\ pc = "push_upload"
  /\ upload_failed' = TRUE
  /\ pc' = "push_cleanup"
  /\ UNCHANGED <<progress_db, total_docs_collected, batch_number, docs_for_current_batch,
                 current_skiptoken, next_skiptoken, push_docs, push_ret, collected,
                 handed, hf_repo, local_files>>
  /\ UNCHANGED <<pushes, save_calls, fetch_failed, exit_code>>
  /\ BI_Unchanged

\* lines 218-222: finally, remove the local file; the call returns
BI_PushCleanup ==
  /\ prog = "batched" /\ pc = "push_cleanup"
  /\ local_files' = local_files \ {LocalParquetPath(batch_number)}
  /\ pc' = push_ret
  /\ UNCHANGED <<progress_db, total_docs_collected, batch_number, docs_for_current_batch,
                 current_skiptoken, next_skiptoken, push_docs, push_ret, collected,
                 handed, upload_failed, hf_repo>>
  /\ UNCHANGED <<pushes, save_calls, fetch_failed, exit_code>>
  /\ BI_Unchanged

\* the script is started again (next scheduled run)
BI_NextRun ==
  /\ prog = "batched" /\ pc = "bi_done"
  /\ run < MaxRuns
  /\ run' = run + 1
  /\ pc' = "bi_start"
  /\ exit_code' = None
  /\ UNCHANGED <<prog, bi_vars, jc_vars, ex_vars, cs_vars, hf_repo, local_files>>


\* ========================================================= json_crawler.py

\* load_state: the stored skip value, {"skip": 0} when the file is absent
load_state == IF state_file # None THEN state_file ELSE 0

\* fetch_documents(skip, top): the documents at feed offsets skip+1 .. skip+top
fetch_documents(sk, top) ==
  [k \in 1..(Min(sk + top, odata_len) - Min(sk, odata_len)) |-> sk + k]

\* a slice that stops one line short: lines[i:i + SHARD_SIZE - 1]
ShardLines_Mut(ls, off) == SubSeq(ls, off + 1, Min(off + SHARD_SIZE - 1, Len(ls)))

\* lines[i:i + SHARD_SIZE]
ShardLines(ls, off) == SubSeq(ls, off + 1, Min(off + SHARD_SIZE, Len(ls)))

\* shard_path = f"shard_{i}_{i+len(shard_lines)}.jsonl"
ShardPath(off, shard_lines) == <<"shard", off, off + Len(shard_lines)>>

\* hf_dest = f"shards/{shard_path}"
HfDest(off, shard_lines) == <<"shards/shard", off, off + Len(shard_lines)>>

\* the existence test made with the local name: shard_path in repo_files
AlreadyUploaded_Mut(off, shard_lines) == ShardPath(off, shard_lines) \in repo_files

\* line 88: hf_dest in repo_files
AlreadyUploaded(off, shard_lines) == HfDest(off, shard_lines) \in repo_files

\* the remote paths of the repository (api.list_repo_files)
list_repo_files == {f.path : f \in hf_repo}

\* range(0, len(lines), SHARD_SIZE)
ShardOffsets(ls) == {k \in 0..(Len(ls) - 1) : k % SHARD_SIZE = 0}

\* the number of attempts of the retry loop, range(3)
FetchAttempts == 3

JC_Unchanged == UNCHANGED <<prog, run, bi_vars, ex_vars, cs_vars, BATCH_SIZE, SHARD_SIZE, MAX_ENTRIES,
                            HF_TOKEN, odata_len>>

\* main lines 106-108
JC_Start ==
  /\ prog = "crawler" /\ pc = "jc_start"
  /\ skip' = load_state
  /\ pre_run_skip' = load_state
  /\ total' = 0
  /\ attempt' = 0
  /\ aborted' = FALSE
  /\ pc' = "jc_loop"
  /\ UNCHANGED <<state_file, output_log, repo_files, lines, i, n, slices, attempted,
                 list_ok, had_all, hf_repo, local_files>>
  /\ UNCHANGED <<exit_code>>
  /\ JC_Unchanged

\* while condition false
JC_LoopExit ==
  /\ prog = "crawler" /\ pc = "jc_loop"
  /\ attempt = 0
  /\ ~(total < MAX_ENTRIES)
  /\ pc' = "jc_push"
  /\ UNCHANGED <<state_file, output_log, skip, total, attempt, repo_files, lines, i, n,
                 aborted, pre_run_skip, slices, attempted, list_ok, had_all, hf_repo,
                 local_files>>
  /\ UNCHANGED <<exit_code>>
  /\ JC_Unchanged

\* the retry with one attempt too many: a fourth request is made
JC_FetchRetry_Mut ==
  /\ prog = "crawler" /\ pc = "jc_loop"
  /\ total < MAX_ENTRIES
  /\ attempt < FetchAttempts
  /\ attempt' = attempt + 1
  /\ UNCHANGED <<pc, state_file, output_log, skip, total, repo_files, lines, i, n,
                 aborted, pre_run_skip, slices, attempted, list_ok, had_all, hf_repo,
                 local_files>>
  /\ UNCHANGED <<exit_code>>
  /\ JC_Unchanged

\* lines 116-118: the fetch raises and another attempt is left
JC_FetchRetry ==
  /\ prog = "crawler" /\ pc = "jc_loop"
  /\ total < MAX_ENTRIES
  /\ attempt + 1 < FetchAttempts
  /\ attempt' = attempt + 1
  /\ UNCHANGED <<pc, state_file, output_log, skip, total, repo_files, lines, i, n,
                 aborted, pre_run_skip, slices, attempted, list_ok, had_all, hf_repo,
                 local_files>>
  /\ UNCHANGED <<exit_code>>
  /\ JC_Unchanged

\* the abort branch without its break: the while loop goes on
JC_FetchAbort_Mut ==
  /\ prog = "crawler" /\ pc = "jc_loop"
  /\ total < MAX_ENTRIES
  /\ attempt + 1 = FetchAttempts
  /\ aborted' = TRUE
  /\ attempt' = 0
  /\ pc' = "jc_loop"
  /\ UNCHANGED <<state_file, output_log, skip, total, repo_files, lines, i, n,
                 pre_run_skip, slices, attempted, list_ok, had_all, hf_repo,
                 local_files>>
  /\ UNCHANGED <<exit_code>>
  /\ JC_Unchanged

\* lines 116-121: the last attempt raises, for/else breaks out of the while loop
JC_FetchAbort ==
  /\ prog = "crawler" /\ pc = "jc_loop"
  /\ total < MAX_ENTRIES
  /\ attempt + 1 = FetchAttempts
  /\ aborted' = TRUE
  /\ attempt' = 0
  /\ pc' = "jc_push"
  /\ UNCHANGED <<state_file, output_log, skip, total, repo_files, lines, i, n,
                 pre_run_skip, slices, attempted, list_ok, had_all, hf_repo,
                 local_files>>
  /\ UNCHANGED <<exit_code>>
  /\ JC_Unchanged

\* lines 114-115, 122-124: the fetch succeeds with no documents
JC_FetchEmpty ==
  /\ prog = "crawler" /\ pc = "jc_loop"
  /\ total < MAX_ENTRIES
  /\ Len(fetch_documents(skip, BATCH_SIZE)) = 0
  /\ attempt' = 0
  /\ pc' = "jc_push"
  /\ UNCHANGED <<state_file, output_log, skip, total, repo_files, lines, i, n,
                 aborted, pre_run_skip, slices, attempted, list_ok, had_all, hf_repo,
                 local_files>>
  /\ UNCHANGED <<exit_code>>
  /\ JC_Unchanged

\* where the while loop goes after a page of this many documents (lines 130-132)
AfterPage(ndocs) == IF ndocs < BATCH_SIZE THEN "jc_push" ELSE "jc_loop"

\* lines 114-115, 125-132: the fetch succeeds; emit, count, save the state
JC_FetchDocs ==
  /\ prog = "crawler" /\ pc = "jc_loop"
  /\ total < MAX_ENTRIES
  /\ LET docs == fetch_documents(skip, BATCH_SIZE)
     IN /\ Len(docs) > 0
        /\ output_log' = output_log \o docs
        /\ total' = total + Len(docs)
        /\ skip' = skip + Len(docs)
        /\ state_file' = skip + Len(docs)
        /\ pc' = AfterPage(Len(docs))
  /\ attempt' = 0
  /\ UNCHANGED <<repo_files, lines, i, n, aborted, pre_run_skip, slices, attempted,
                 list_ok, had_all, hf_repo, local_files>>
  /\ UNCHANGED <<exit_code>>
  /\ JC_Unchanged

\* lines 136-137: no token, the upload is skipped
JC_NoToken ==
  /\ prog = "crawler" /\ pc = "jc_push"
  /\ ~HF_TOKEN
  /\ pc' = "jc_done"
  /\ exit_code' = 0
  /\ UNCHANGED <<state_file, output_log, skip, total, attempt, repo_files, lines, i, n,
                 aborted, pre_run_skip, slices, attempted, list_ok, had_all, hf_repo,
                 local_files>>
  /\ JC_Unchanged

\* push_to_hf lines 69-83: list the remote files (an error gives the empty
\* set), return when there is no output file, read the lines
JC_PushStart ==
  /\ prog = "crawler" /\ pc = "jc_push"
  /\ HF_TOKEN
  /\ \/ /\ repo_files' = list_repo_files
        /\ list_ok' = TRUE
     \/ /\ repo_files' = {}
        /\ list_ok' = FALSE
  /\ had_all' = \A off \in ShardOffsets(output_log) :
                   HfDest(off, ShardLines(output_log, off)) \in {f.path : f \in hf_repo}
  /\ slices' = <<>>
  /\ attempted' = {}
  /\ IF Len(output_log) = 0
     THEN /\ pc' = "jc_done"
          /\ exit_code' = 0
          /\ UNCHANGED <<lines, i, n>>
     ELSE /\ exit_code' = exit_code
          /\ lines' = output_log
          /\ n' = 0
          /\ i' = 0
          /\ pc' = "jc_shard"
  /\ UNCHANGED <<state_file, output_log, skip, total, attempt, aborted, pre_run_skip,
                 hf_repo, local_files>>
  /\ JC_Unchanged

\* the slice record kept for the current loop iteration
Slice(off) == [start |-> off, lines |-> ShardLines(lines, off),
               name |-> HfDest(off, ShardLines(lines, off))]

\* lines 84-90: the shard is already listed, skip it
JC_ShardSkip ==
  /\ prog = "crawler" /\ pc = "jc_shard"
  /\ i < Len(lines)
  /\ AlreadyUploaded(i, ShardLines(lines, i))
  /\ slices' = Append(slices, Slice(i))
  /\ i' = i + SHARD_SIZE
  /\ UNCHANGED <<pc, state_file, output_log, skip, total, attempt, repo_files, lines, n,
                 aborted, pre_run_skip, attempted, list_ok, had_all, hf_repo, local_files>>
  /\ UNCHANGED <<exit_code>>
  /\ JC_Unchanged

\* lines 91-102: write the shard file, upload it, remove it, count its lines
JC_ShardUpload ==
  /\ prog = "crawler" /\ pc = "jc_shard"
  /\ i < Len(lines)
  /\ ~AlreadyUploaded(i, ShardLines(lines, i))
  /\ LET shard_lines == ShardLines(lines, i)
     IN /\ hf_repo' = UploadFile(HfDest(i, shard_lines), shard_lines)
        /\ local_files' = (local_files \cup {ShardPath(i, shard_lines)})
                            \ {ShardPath(i, shard_lines)}
        /\ attempted' = attempted \cup {HfDest(i, shard_lines)}
        /\ n' = n + Len(shard_lines)
  /\ slices' = Append(slices, Slice(i))
  /\ i' = i + SHARD_SIZE
  /\ UNCHANGED <<pc, state_file, output_log, skip, total, attempt, repo_files, lines,
                 aborted, pre_run_skip, list_ok, had_all>>
  /\ UNCHANGED <<exit_code>>
  /\ JC_Unchanged

\* lines 91-99: upload_file raises; nothing catches it, push_to_hf and main end
\* with the exception and the shard file stays on disk
JC_ShardUploadFail ==
  /\ prog = "crawler" /\ pc = "jc_shard"
  /\ i < Len(lines)
  /\ ~AlreadyUploaded(i, ShardLines(lines, i))
  /\ LET shard_lines == ShardLines(lines, i)
     IN /\ local_files' = local_files \cup {ShardPath(i, shard_lines)}
        /\ attempted' = attempted \cup {HfDest(i, shard_lines)}
  /\ slices' = Append(slices, Slice(i))
  /\ pc' = "jc_crashed"
  /\ exit_code' = 1
  /\ UNCHANGED <<state_file, output_log, skip, total, attempt, repo_files, lines, i, n,
                 aborted, pre_run_skip, list_ok, had_all, hf_repo>>
  /\ JC_Unchanged

\* line 103: the loop is over, push_to_hf returns
JC_PushEnd ==
  /\ prog = "crawler" /\ pc = "jc_shard"
  /\ ~(i < Len(lines))
  /\ pc' = "jc_done"
  /\ exit_code' = 0
  /\ UNCHANGED <<state_file, output_log, skip, total, attempt, repo_files, lines, i, n,
                 aborted, pre_run_skip, slices, attempted, list_ok, had_all, hf_repo,
                 local_files>>
  /\ JC_Unchanged

\* the script is started again (next scheduled run)
JC_NextRun ==
  /\ prog = "crawler" /\ pc \in {"jc_done", "jc_crashed"}
  /\ run < MaxRuns
  /\ run' = run + 1
  /\ pc' = "jc_start"
  /\ exit_code' = None
  /\ UNCHANGED <<prog, bi_vars, jc_vars, ex_vars, cs_vars, hf_repo, local_files>>

\* ============================================================== extraction
\* batched_ingest.fetch_and_process_entry / fetch_api_page and
\* json_crawler.clean_text / emit_jsonl, on texts that are sequences of
\* characters: "a" a letter, " " white space, "<" ">" "/" themselves and "s"
\* the word script (or style).

\* str.isspace for one character
IsSpace(c) == c = " "

RECURSIVE LStrip(_)
LStrip(t) == IF Len(t) > 0 /\ IsSpace(t[1]) THEN LStrip(Tail(t)) ELSE t

RECURSIVE RStrip(_)
RStrip(t) == IF Len(t) > 0 /\ IsSpace(t[Len(t)]) THEN RStrip(SubSeq(t, 1, Len(t) - 1)) ELSE t

\* str.strip()
Strip(t) == RStrip(LStrip(t))

\* a record the extraction did not produce (Python None)
NoDoc == [URL |-> None]

\* ---- batched_ingest.py: one <entry> of the Atom feed.
\*   verwijderd: what the nested XML of atom:content says: "absent" (no content
\*               text), "not_xml" (XMLSyntaxError), "true", "false"
\*   href:       the enclosure URL, None when there is no enclosure link or href
\*   download:   "ok", or "error" when requests.get / raise_for_status raises
\*   ctype:      the Content-Type of the response
\*   convert:    "ok", or "error" when pdftotext fails (convert_pdf_to_text gives "")
\*   body:       the response text, or the text pdftotext prints
ContentTypes == {"application/pdf", "text/plain", "application/xml", "application/unsupported"}

Bodies == {<<>>, <<" ">>, <<" ", "a">>}

\* the entries that can stand at position k of a page; fields that the code
\* never reads for such an entry carry one fixed value
EntriesAt(k) ==
  {e \in [verwijderd : {"absent", "not_xml", "true", "false"}, href : {None, k},
          download : {"ok", "error"}, ctype : ContentTypes,
          convert : {"ok", "error"}, body : Bodies] :
     /\ (e.href = None => e.download = "ok")
     /\ (e.download = "error" \/ e.href = None => e.ctype = "text/plain")
     /\ (e.ctype # "application/pdf" => e.convert = "ok")
     /\ ((e.convert = "error" \/ e.download = "error" \/ e.href = None
            \/ e.ctype = "application/unsupported") => e.body = <<>>)}

RECURSIVE Pages(_)
\* the pages of len entries
Pages(len) == IF len = 0 THEN {<<>>}
              ELSE {Append(pg, e) : pg \in Pages(len - 1), e \in EntriesAt(len)}

\* the deletion test that compares with Python's "True"
IsDeleted_Mut(e) == e.verwijderd = "True"

\* lines 107-115: the nested XML parses and its verwijderd attribute is "true"
IsDeleted(e) == e.verwijderd = "true"

\* convert_pdf_to_text: the text of pdftotext, "" on any failure
convert_pdf_to_text(e) == IF e.convert = "ok" THEN e.body ELSE <<>>

\* lines 132-142: the supported content types
IsTextual(ctype) == ctype \in {"text/plain", "application/xml"}

\* fetch_and_process_entry
fetch_and_process_entry(e) ==
  IF IsDeleted(e) THEN NoDoc
  ELSE IF e.href = None THEN NoDoc
  ELSE IF e.download = "error" THEN NoDoc
  ELSE IF e.ctype # "application/pdf" /\ ~IsTextual(e.ctype) THEN NoDoc
  ELSE LET fetched_content == IF e.ctype = "application/pdf"
                              THEN convert_pdf_to_text(e) ELSE e.body
       IN IF Strip(fetched_content) = <<>> THEN NoDoc
          ELSE [URL |-> e.href, content |-> fetched_content, Source |-> "Tweede Kamer"]

\* the loop body that puts a new document in front of the list
AppendDoc_Mut(docs, doc) == IF doc # NoDoc THEN <<doc>> \o docs ELSE docs

\* lines 175-176: if doc: processed_docs.append(doc)
AppendDoc(docs, doc) == IF doc # NoDoc THEN Append(docs, doc) ELSE docs

EX_Unchanged == UNCHANGED <<prog, run, bi_vars, jc_vars, cs_vars, exit_code, hf_repo, local_files>>

\* fetch_api_page lines 161-172: the feed answers with a page of entries
FP_Parse ==
  /\ prog = "batched" /\ pc = "fp_fetch"
  /\ \E k \in 0..MaxPageEntries : \E pg \in Pages(k) : entries' = pg
  /\ entry_idx' = 1
  /\ processed_docs' = <<>>
  /\ pc' = "fp_loop"
  /\ UNCHANGED emitted
  /\ EX_Unchanged

\* fetch_api_page lines 173-176: one iteration of the loop over the entries
FP_Entry ==
  /\ prog = "batched" /\ pc = "fp_loop"
  /\ entry_idx <= Len(entries)
  /\ processed_docs' = AppendDoc(processed_docs, fetch_and_process_entry(entries[entry_idx]))
  /\ entry_idx' = entry_idx + 1
  /\ UNCHANGED <<pc, entries, emitted>>
  /\ EX_Unchanged

\* fetch_api_page lines 178-188: the loop is over, the page is returned
FP_Return ==
  /\ prog = "batched" /\ pc = "fp_loop"
  /\ entry_idx > Len(entries)
  /\ pc' = "fp_done"
  /\ UNCHANGED <<entries, entry_idx, processed_docs, emitted>>
  /\ EX_Unchanged

\* ---- json_crawler.py

\* the pieces the texts are made of: a letter, white space, the two brackets,
\* "<script" and "</script>"
TextTokens == {<<"a">>, <<" ">>, <<"<">>, <<">">>, <<"<", "s">>, <<"<", "/", "s", ">">>}

RECURSIVE Texts(_)
\* the texts of at most k pieces
Texts(k) == IF k = 0 THEN {<<>>}
            ELSE Texts(k - 1) \cup {t \o tok : t \in Texts(k - 1), tok \in TextTokens}

\* the least index j >= from with t[j] = c, 0 when there is none
RECURSIVE IndexOf(_, _, _)
IndexOf(t, c, from) ==
  IF from > Len(t) THEN 0
  ELSE IF t[from] = c THEN from ELSE IndexOf(t, c, from + 1)

\* the least index k >= from where "</s>" starts, 0 when there is none
RECURSIVE CloseAt(_, _)
CloseAt(t, from) ==
  IF from + 3 > Len(t) THEN 0
  ELSE IF t[from] = "<" /\ t[from + 1] = "/" /\ t[from + 2] = "s" /\ t[from + 3] = ">"
       THEN from ELSE CloseAt(t, from + 1)

\* where a match of <(script|style).*?>.*?</\1> that starts at p ends, 0 for no match
BlockEnd(t, p) ==
  IF p + 1 <= Len(t) /\ t[p] = "<" /\ t[p + 1] = "s"
  THEN LET j == IndexOf(t, ">", p + 2)
       IN IF j = 0 THEN 0
          ELSE LET k == CloseAt(t, j + 1) IN IF k = 0 THEN 0 ELSE k + 3
  ELSE 0

RECURSIVE RemoveBlocks(_, _)
\* re.sub(r"<(script|style).*?>.*?</\1>", "", text, flags=re.DOTALL) from p on
RemoveBlocks(t, p) ==
  IF p > Len(t) THEN <<>>
  ELSE IF BlockEnd(t, p) # 0 THEN RemoveBlocks(t, BlockEnd(t, p) + 1)
       ELSE <<t[p]>> \o RemoveBlocks(t, p + 1)

\* where a match of <[^>]+> that starts at p ends, 0 for no match
TagEnd(t, p) ==
  IF t[p] = "<"
  THEN LET j == IndexOf(t, ">", p + 1) IN IF j >= p + 2 THEN j ELSE 0
  ELSE 0

RECURSIVE RemoveTags(_, _)
\* re.sub(r"<[^>]+>", "", text) from p on
RemoveTags(t, p) ==
  IF p > Len(t) THEN <<>>
  ELSE IF TagEnd(t, p) # 0 THEN RemoveTags(t, TagEnd(t, p) + 1)
       ELSE <<t[p]>> \o RemoveTags(t, p + 1)

RECURSIVE CollapseSpace(_, _)
\* re.sub(r"\s+", " ", text) from p on
CollapseSpace(t, p) ==
  IF p > Len(t) THEN <<>>
  ELSE IF IsSpace(t[p]) /\ p > 1 /\ IsSpace(t[p - 1]) THEN CollapseSpace(t, p + 1)
       ELSE <<t[p]>> \o CollapseSpace(t, p + 1)

\* clean_text
clean_text(text) ==
  IF text = <<>> THEN <<>>
  ELSE Strip(CollapseSpace(RemoveTags(RemoveBlocks(text, 1), 1), 1))

\* emit_jsonl lines 58-66: the record written for a document with this url and
\* this text (the first non-empty text field, "" when there is none)
EmitRecord(url, text) == [URL |-> url, Content |-> clean_text(text), Source |-> "Tweede Kamer"]

\* emit_jsonl lines 57-66: one iteration of the loop over docs
EM_Doc ==
  /\ prog = "crawler" /\ pc = "emit_loop"
  /\ Len(emitted) < MaxEmitDocs
  /\ \E text \in Texts(MaxTextTokens) :
        emitted' = Append(emitted, EmitRecord(Len(emitted) + 1, text))
  /\ UNCHANGED <<pc, entries, entry_idx, processed_docs>>
  /\ EX_Unchanged

\* emit_jsonl: the loop is over, the file is closed
EM_Return ==
  /\ prog = "crawler" /\ pc = "emit_loop"
  /\ pc' = "emit_done"
  /\ UNCHANGED <<entries, entry_idx, processed_docs, emitted>>
  /\ EX_Unchanged

\* ============================================================ cursor store
\* json_crawler.save_state / load_state against a process that can die at any
\* point of save_state. The file is the sequence of chunks json.dump hands to
\* f.write; the file object buffers them and the file system receives them
\* when the with block closes the file.

\* load_state could not parse the file (json.load raises JSONDecodeError)
LoadFailed == -3

\* json.dump({"skip": k}, f): the chunks of the encoder, in order
JsonChunks(k) == <<"{", "\"skip\"", ": ", k, "}">>

\* json.load of a file with these chunks, then state.get("skip", 0)
JsonLoad(chunks) ==
  IF Len(chunks) = 5 /\ chunks[1] = "{" /\ chunks[2] = "\"skip\"" /\ chunks[3] = ": "
     /\ chunks[5] = "}"
  THEN chunks[4] ELSE LoadFailed

\* no file at the path (os.path.exists is false)
NoFile == [exists |-> FALSE, chunks |-> <<>>]

\* a file with these chunks
File(chunks) == [exists |-> TRUE, chunks |-> chunks]

\* load_state, lines 26-30: the default when the file does not exist
load_state_file(d) == IF ~d.exists THEN 0 ELSE JsonLoad(d.chunks)

CS_Unchanged == UNCHANGED <<prog, run, bi_vars, jc_vars, ex_vars, exit_code, hf_repo, local_files>>

\* save_state line 33: open(path, "w") creates or truncates the file
SS_Open ==
  /\ prog = "crawler" /\ pc = "ss_open"
  /\ disk' = File(<<>>)
  /\ fbuf' = <<>>
  /\ pc' = "ss_write"
  /\ UNCHANGED <<new_state, old_state, loaded>>
  /\ CS_Unchanged

\* save_state line 34: json.dump writes its next chunk to the file object
SS_Write ==
  /\ prog = "crawler" /\ pc = "ss_write"
  /\ Len(fbuf) < Len(JsonChunks(new_state))
  /\ fbuf' = Append(fbuf, JsonChunks(new_state)[Len(fbuf) + 1])
  /\ UNCHANGED <<pc, disk, new_state, old_state, loaded>>
  /\ CS_Unchanged

\* save_state line 33: leaving the with block flushes the buffer and closes
SS_Close ==
  /\ prog = "crawler" /\ pc = "ss_write"
  /\ Len(fbuf) = Len(JsonChunks(new_state))
  /\ disk' = File(disk.chunks \o fbuf)
  /\ fbuf' = <<>>
  /\ pc' = "ss_done"
  /\ UNCHANGED <<new_state, old_state, loaded>>
  /\ CS_Unchanged

\* the process dies during save_state: what was only buffered is lost
SS_Crash ==
  /\ prog = "crawler" /\ pc \in {"ss_open", "ss_write"}
  /\ fbuf' = <<>>
  /\ pc' = "ss_crashed"
  /\ UNCHANGED <<disk, new_state, old_state, loaded>>
  /\ CS_Unchanged

\* the next process calls load_state (main line 106)
LS_Load ==
  /\ prog = "crawler" /\ pc \in {"ss_crashed", "ss_done"}
  /\ loaded' = load_state_file(disk)
  /\ pc' = IF pc = "ss_crashed" THEN "ls_after_crash" ELSE "ls_after_save"
  /\ UNCHANGED <<disk, fbuf, new_state, old_state>>
  /\ CS_Unchanged

\* ============================================================ specification

BI_Idle ==
  /\ total_docs_collected = 0 /\ batch_number = 1 /\ docs_for_current_batch = <<>>
  /\ current_skiptoken = None /\ next_skiptoken = None
  /\ push_docs = <<>> /\ push_ret = "bi_saved"
  /\ collected = <<>> /\ handed = {} /\ upload_failed = FALSE
  /\ pushes = <<>> /\ save_calls = 0 /\ fetch_failed = FALSE
  /\ progress_db = None

JC_Idle ==
  /\ state_file = None /\ output_log = <<>>
  /\ skip = 0 /\ total = 0 /\ attempt = 0
  /\ repo_files = {} /\ lines = <<>> /\ i = 0 /\ n = 0
  /\ aborted = FALSE /\ pre_run_skip = 0
  /\ slices = <<>> /\ attempted = {} /\ list_ok = TRUE /\ had_all = FALSE

InitBatched ==
  /\ prog = "batched" /\ pc = "bi_start"
  /\ TOTAL_DOCUMENT_LIMIT \in 1..MaxLimit
  /\ UPLOAD_BATCH_SIZE \in 1..MaxUploadBatch
  /\ HF_REPO_ID \in BOOLEAN
  /\ feed \in [1..NumPages -> 0..MaxPageDocs]
  /\ BATCH_SIZE = 1 /\ SHARD_SIZE = 1 /\ MAX_ENTRIES = 1 /\ HF_TOKEN = TRUE
  /\ odata_len = 0

InitCrawler ==
  /\ prog = "crawler" /\ pc = "jc_start"
  /\ BATCH_SIZE \in 1..MaxBatchSize
  /\ SHARD_SIZE \in 1..MaxShardSize
  /\ MAX_ENTRIES \in 1..MaxEntriesBound
  /\ HF_TOKEN \in BOOLEAN
  /\ odata_len \in 0..MaxFeedLen
  /\ TOTAL_DOCUMENT_LIMIT = 1 /\ UPLOAD_BATCH_SIZE = 1 /\ HF_REPO_ID = TRUE
  /\ feed = [p \in 1..NumPages |-> 0]

CS_Idle ==
  disk = NoFile /\ fbuf = <<>> /\ new_state = 0 /\ old_state = 0 /\ loaded = None

EX_Idle ==
  /\ entries = <<>> /\ entry_idx = 1 /\ processed_docs = <<>> /\ emitted = <<>>

Init ==
  /\ run = 1
  /\ hf_repo = {} /\ local_files = {} /\ exit_code = None
  /\ BI_Idle /\ JC_Idle /\ EX_Idle /\ CS_Idle
  /\ (InitBatched \/ InitCrawler)

Next ==
  \/ BI_Start \/ BI_NoRepoId \/ BI_LoopExit \/ BI_FetchFail \/ BI_FetchPage
  \/ BI_BatchFull \/ BI_BatchNotFull \/ BI_SaveAfterPush \/ BI_Advance
  \/ BI_FinalPush \/ BI_FinalSave
  \/ BI_PushWrite \/ BI_UploadOk \/ BI_UploadFail \/ BI_PushCleanup
  \/ BI_NextRun
  \/ JC_Start \/ JC_LoopExit \/ JC_FetchRetry \/ JC_FetchAbort
  \/ JC_FetchEmpty \/ JC_FetchDocs \/ JC_NoToken \/ JC_PushStart
  \/ JC_ShardSkip \/ JC_ShardUpload \/ JC_ShardUploadFail \/ JC_PushEnd
  \/ JC_NextRun

Spec == Init /\ [][Next]_vars

\* the state of the two mains while only the extraction functions run
MainIdle ==
  /\ run = 1
  /\ hf_repo = {} /\ local_files = {} /\ exit_code = None
  /\ BI_Idle /\ JC_Idle
  /\ TOTAL_DOCUMENT_LIMIT = 1 /\ UPLOAD_BATCH_SIZE = 1 /\ HF_REPO_ID = TRUE
  /\ feed = [p \in 1..NumPages |-> 0]
  /\ BATCH_SIZE = 1 /\ SHARD_SIZE = 1 /\ MAX_ENTRIES = 1 /\ HF_TOKEN = TRUE
  /\ odata_len = 0

\* fetch_api_page is applied to a page of entries, or emit_jsonl to documents
InitExtract ==
  /\ MainIdle /\ CS_Idle
  /\ entry_idx = 1 /\ processed_docs = <<>> /\ emitted = <<>>
  /\ entries = <<>>
  /\ \/ prog = "batched" /\ pc = "fp_fetch"
     \/ prog = "crawler" /\ pc = "emit_loop"

NextExtract == FP_Parse \/ FP_Entry \/ FP_Return \/ EM_Doc \/ EM_Return

ExtractSpec == InitExtract /\ [][NextExtract]_vars

\* save_state(path, {"skip": new_state}) is called on a store that holds
\* old_state, written by an earlier save_state, or on no file at all
InitCrash ==
  /\ MainIdle /\ EX_Idle
  /\ prog = "crawler" /\ pc = "ss_open"
  /\ fbuf = <<>> /\ loaded = None
  /\ new_state \in 0..MaxStateSkip
  /\ \/ disk = NoFile /\ old_state = 0
     \/ \E k \in 0..MaxStateSkip : disk = File(JsonChunks(k)) /\ old_state = k

NextCrash == SS_Open \/ SS_Write \/ SS_Close \/ SS_Crash \/ LS_Load

CrashSpec == InitCrash /\ [][NextCrash]_vars

\* The scripts are sequential programs whose blocking calls return (every
\* request carries a timeout): a step that can be taken is eventually taken.
\* One run of batched_ingest.main with its configuration present.
InitOneRun == Init /\ prog = "batched" /\ HF_REPO_ID

NextOneRun ==
  \/ BI_Start \/ BI_LoopExit \/ BI_FetchFail \/ BI_FetchPage
  \/ BI_BatchFull \/ BI_BatchNotFull \/ BI_SaveAfterPush \/ BI_Advance
  \/ BI_FinalPush \/ BI_FinalSave
  \/ BI_PushWrite \/ BI_UploadOk \/ BI_UploadFail \/ BI_PushCleanup

\* The scenario of spec section 8: batch threshold 8, no persisted cursor, a
\* feed of exactly 2 pages of 5 extractable entries each; the budget is the
\* program's 1000, just the 10 records of the feed, or 5 (a budget that cuts the
\* feed short, outside the scenario).
InitScenario ==
  /\ run = 1
  /\ hf_repo = {} /\ local_files = {} /\ exit_code = None
  /\ BI_Idle /\ JC_Idle /\ EX_Idle /\ CS_Idle
  /\ prog = "batched" /\ pc = "bi_start"
  /\ HF_REPO_ID = TRUE
  /\ UPLOAD_BATCH_SIZE = 8
  /\ TOTAL_DOCUMENT_LIMIT \in {5, 10, 1000}
  /\ feed = <<5, 5>>
  /\ BATCH_SIZE = 1 /\ SHARD_SIZE = 1 /\ MAX_ENTRIES = 1 /\ HF_TOKEN = TRUE
  /\ odata_len = 0

ScenarioSpec == InitScenario /\ [][NextOneRun]_vars

LiveSpec == InitOneRun /\ [][NextOneRun]_vars /\ WF_vars(NextOneRun)

TypeOK ==
  /\ prog \in {"batched", "crawler"}
  /\ run \in 1..MaxRuns
  /\ total_docs_collected \in Nat /\ batch_number \in Nat
  /\ total \in Nat /\ skip \in Nat /\ attempt \in 0..(FetchAttempts - 1)


\* ================================================================== claims

PushPcs == {"push_write", "push_upload", "push_cleanup"}

\* the records successfully uploaded by the current run of batched_ingest
UploadedThisRun == UNION {Range(f.content) : f \in {g \in hf_repo : g.run = run}}

\* every record of this run from a page before the persisted skiptoken is uploaded
CursorCoveredBI ==
  \A k \in 1..Len(collected) :
     collected[k][1] < PageOf(get_skiptoken) => collected[k] \in UploadedThisRun

\* the lines of the output log that some remote shard holds
UploadedLines == UNION {Range(f.content) : f \in hf_repo}

\* every document this run appended from an offset before the persisted skip is uploaded
CursorCoveredJC ==
  \A d \in Range(output_log) :
     (d > pre_run_skip /\ d <= load_state) => d \in UploadedLines

\* C1: whenever the persisted cursor is written (save_skiptoken / save_state),
\* every record this run collected from pages positioned before the new cursor
\* value has already been uploaded successfully, for every upload outcome.
C1_CursorAfterPublish ==
  [][ /\ (progress_db' # progress_db => CursorCoveredBI')
      /\ (state_file' # state_file => CursorCoveredJC') ]_vars

\* C2: across runs of batched_ingest.main, no upload of a later run writes to a
\* remote path an earlier run already uploaded: a file published by an earlier
\* run is never replaced.
C2_NoReplace ==
  [][ \A f \in hf_repo : (prog = "batched" /\ f.run < run) => f \in hf_repo' ]_vars

\* C3: resumability of batched_ingest.main with every upload succeeding: when a
\* run that resumed from the persisted cursor has ended, every extractable record
\* of every page before the persisted cursor (the pages no later run fetches
\* again, which one uninterrupted run would have handed over in full) has been
\* handed to push_batch_to_hf by one of the runs.
C3_Resumable ==
  (prog = "batched" /\ pc = "bi_done" /\ run >= 2 /\ ~upload_failed) =>
     \A p \in 1..NumPages :
        p < PageOf(get_skiptoken) => Range(PageDocs(p)) \subseteq handed

\* C4: in json_crawler.main, once the fetch of a page has failed on 3 consecutive
\* attempts the run fetches no further page, appends nothing to the output log
\* and leaves the state file alone; the persisted skip is the last committed
\* value, the pre-run value when no page was fetched in this run.
C4_AbortKeepsCursor ==
  /\ [][ (prog = "crawler" /\ aborted /\ pc # "jc_start" /\ run' = run) =>
            /\ pc' # "jc_loop"
            /\ output_log' = output_log
            /\ state_file' = state_file ]_vars
  /\ []((aborted /\ pc # "jc_start") =>
          (load_state = skip /\ (total = 0 => load_state = pre_run_skip)))

C4_Witness ==
  prog = "crawler" /\ aborted /\ pc = "jc_done" /\ total > 0 /\ load_state = skip

\* C5: the number of records collected in one run never exceeds the budget:
\* total_docs_collected <= TOTAL_DOCUMENT_LIMIT in batched_ingest.main and
\* total <= MAX_ENTRIES in json_crawler.main, at every step.
C5_Budget ==
  /\ total_docs_collected <= TOTAL_DOCUMENT_LIMIT
  /\ total <= MAX_ENTRIES

\* C6: batch threshold in batched_ingest.main: at every page fetch the
\* unpublished batch holds fewer than UPLOAD_BATCH_SIZE records, and a batch that
\* holds UPLOAD_BATCH_SIZE records or more is at the threshold test or is the
\* batch push_batch_to_hf was just called with (nothing is added to it first).
C6_Threshold ==
  prog = "batched" =>
    /\ (pc \in {"bi_loop", "bi_advance", "bi_final"} =>
          Len(docs_for_current_batch) < UPLOAD_BATCH_SIZE)
    /\ (Len(docs_for_current_batch) >= UPLOAD_BATCH_SIZE =>
          /\ pc \in {"bi_check", "bi_saved"} \cup PushPcs
          /\ (pc # "bi_check" => (push_docs = docs_for_current_batch /\ push_ret = "bi_saved")))

C6_Witness ==
  /\ prog = "batched" /\ pc = "bi_loop" /\ batch_number > 1
  /\ LoopCond /\ Len(docs_for_current_batch) = 0 /\ UPLOAD_BATCH_SIZE = 2

SlicesHolding(x) ==
  {k \in 1..Len(slices) : slices[k].start < x /\ x <= slices[k].start + Len(slices[k].lines)}

\* C8: push_to_hf partitions the lines of the output file into consecutive
\* slices [i, min(i+SHARD_SIZE, L)): slice k starts at (k-1)*SHARD_SIZE and holds
\* the lines at its offsets, at most SHARD_SIZE of them and fewer only when it is
\* the last; its remote name is built from its own start and end offsets; when
\* the call returns every line belongs to exactly one slice.
C8_Partition ==
  (prog = "crawler" /\ HF_TOKEN /\ pc \in {"jc_shard", "jc_done", "jc_crashed"}) =>
    /\ \A k \in 1..Len(slices) :
         LET s == slices[k]
         IN /\ s.start = (k - 1) * SHARD_SIZE
            /\ Len(s.lines) >= 1 /\ Len(s.lines) <= SHARD_SIZE
            /\ s.start + Len(s.lines) <= Len(lines)
            /\ (Len(s.lines) < SHARD_SIZE => s.start + Len(s.lines) = Len(lines))
            /\ \A j \in 1..Len(s.lines) : s.lines[j] = lines[s.start + j]
            /\ s.name = <<"shards/shard", s.start, s.start + Len(s.lines)>>
    /\ (pc = "jc_done" => \A x \in 1..Len(lines) : Cardinality(SlicesHolding(x)) = 1)

C8_Witness ==
  /\ prog = "crawler" /\ pc = "jc_done" /\ SHARD_SIZE = 2
  /\ Len(lines) = 3 /\ Len(slices) = 2
  /\ Len(slices[1].lines) = 2 /\ Len(slices[2].lines) = 1
  /\ slices[2].name = <<"shards/shard", 2, 3>>

\* C9: in push_to_hf a failed upload of one shard does not abort the call: when
\* the call has ended it has returned normally and every shard that was not
\* listed as present has been attempted.
C9_UploadFailureIsolated ==
  (prog = "crawler" /\ HF_TOKEN /\ pc \in {"jc_done", "jc_crashed"}) =>
    /\ pc = "jc_done"
    /\ \A off \in ShardOffsets(lines) :
         HfDest(off, ShardLines(lines, off)) \notin repo_files =>
            HfDest(off, ShardLines(lines, off)) \in attempted

\* C10: once a publish call has ended, with the upload having succeeded or
\* failed, no local shard artifact of the call remains on disk, in both
\* publishers.
C10_NoLocalArtifact ==
  /\ (prog = "batched" /\ pc \notin PushPcs) => local_files = {}
  /\ (prog = "crawler" /\ pc \in {"jc_done", "jc_crashed"}) => local_files = {}


\* C15: exit behaviour: a run that has ended normally or at the end of the feed
\* has exit code 0; a run whose page fetch failed for good (json_crawler after 3
\* attempts, batched_ingest after a failed feed request) or whose required
\* configuration is missing (HF_REPO_ID, HF_TOKEN) has a non-zero exit code.
C15_ExitCodes ==
  /\ (prog = "batched" /\ pc = "bi_done") =>
        IF ~HF_REPO_ID \/ fetch_failed THEN exit_code # 0 ELSE exit_code = 0
  /\ (prog = "crawler" /\ pc = "jc_done") =>
        IF ~HF_TOKEN \/ aborted THEN exit_code # 0 ELSE exit_code = 0

\* C17: bounded retry in json_crawler.main: a page is requested at most 3 times
\* (at most 2 failed attempts precede a request); a retry keeps the skip value
\* and appends nothing; the step that appends a page ends the retries and moves
\* skip past exactly the appended documents; no document is appended twice in a run.
C17_BoundedRetry ==
  /\ [](prog = "crawler" => attempt \in 0..(FetchAttempts - 1))
  /\ [][ (prog = "crawler" /\ attempt' > attempt) =>
            (attempt' = attempt + 1 /\ skip' = skip /\ output_log' = output_log) ]_vars
  /\ [][ (prog = "crawler" /\ output_log' # output_log) =>
            /\ attempt' = 0
            /\ Len(output_log') > Len(output_log)
            /\ skip' = skip + (Len(output_log') - Len(output_log))
            /\ \A k \in 1..Len(output_log') :
                  output_log'[k] = IF k <= Len(output_log) THEN output_log[k]
                                   ELSE skip + (k - Len(output_log)) ]_vars
  /\ [](prog = "crawler" =>
          \A a, b \in 1..Len(output_log) :
             (a # b /\ output_log[a] > pre_run_skip /\ output_log[b] > pre_run_skip)
                => output_log[a] # output_log[b])

C17_Witness ==
  prog = "crawler" /\ pc = "jc_loop" /\ attempt = 2 /\ total > 0 /\ Len(output_log) >= 2

\* C19: across runs of json_crawler.main on the same output log and store, the
\* offset ranges of the uploaded shards never overlap (each log line is in at
\* most one remote shard).
C19_ShardsDisjoint ==
  prog = "crawler" =>
    \A f, g \in hf_repo :
       f # g => (f.path[3] <= g.path[2] \/ g.path[3] <= f.path[2])

RECURSIVE PushedDocs(_)
\* the records of the first k push_batch_to_hf calls of this run, in order
PushedDocs(k) == IF k = 0 THEN <<>> ELSE PushedDocs(k - 1) \o pushes[k].docs

\* C20: record conservation in batched_ingest.main: at the end of every loop
\* iteration total_docs_collected is the number of records handed to
\* push_batch_to_hf plus the length of the current batch; when the run ends the
\* pushed records are the collected records, each once and in collection order,
\* and the calls carry the batch numbers 1, 2, 3, ...
C20_Conservation ==
  prog = "batched" =>
    /\ Len(collected) = total_docs_collected
    /\ (pc \in {"bi_check", "bi_advance", "bi_loop"} =>
          total_docs_collected = Len(PushedDocs(Len(pushes))) + Len(docs_for_current_batch))
    /\ \A k \in 1..Len(pushes) : pushes[k].batch = k /\ Len(pushes[k].docs) > 0
    /\ (pc = "bi_done" => PushedDocs(Len(pushes)) = collected)

C20_Witness ==
  /\ prog = "batched" /\ pc = "bi_done" /\ Len(pushes) = 2
  /\ pushes[2].batch = 2 /\ Len(collected) = 3


C16_Scenario ==
  (~fetch_failed /\ TOTAL_DOCUMENT_LIMIT >= 10) =>
    /\ (Len(collected) < 10 => (pushes = <<>> /\ save_calls = 0))
    /\ (pc = "bi_done" =>
          /\ Len(pushes) = 1
          /\ pushes[1].docs = PageDocs(1) \o PageDocs(2)
          /\ Len(pushes[1].docs) = 10
          /\ save_calls = 1
          /\ progress_db \in {None, 2}
          /\ total_docs_collected = 10)

C16_Witness ==
  /\ pc = "bi_done" /\ ~fetch_failed /\ UPLOAD_BATCH_SIZE = 8 /\ feed = <<5, 5>>
  /\ TOTAL_DOCUMENT_LIMIT = 1000
  /\ Len(pushes) = 1 /\ total_docs_collected = 10 /\ save_calls = 1 /\ progress_db = 2


\* C11: non-empty invariant: every record returned by fetch_and_process_entry
\* (the documents of processed_docs) and every record line written by emit_jsonl
\* has content that is non-empty after trimming white space.
C11_NonEmpty ==
  /\ \A k \in 1..Len(processed_docs) : Len(Strip(processed_docs[k].content)) > 0
  /\ \A k \in 1..Len(emitted) : Len(Strip(emitted[k].Content)) > 0

\* C12: tombstone exclusion: an entry whose deletion metadata is set
\* (verwijderd = "true") never appears in the records of fetch_api_page, whatever
\* its enclosure, content type and download outcome.
C12_Tombstone ==
  \A j \in 1..Len(entries) :
     entries[j].verwijderd = "true" =>
        \A k \in 1..Len(processed_docs) : processed_docs[k].URL # j

C12_Witness ==
  /\ pc = "fp_done" /\ Len(entries) = 2 /\ Len(processed_docs) = 1
  /\ entries[1].verwijderd = "true" /\ entries[1].href = 1 /\ entries[1].download = "ok"
  /\ entries[1].ctype = "text/plain" /\ entries[1].body = <<" ", "a">>
  /\ processed_docs[1].URL = 2

\* the entries fetch_and_process_entry has no reason to discard
Kept(e) ==
  /\ e.verwijderd # "true"
  /\ e.href # None
  /\ e.download = "ok"
  /\ e.ctype \in {"application/pdf", "text/plain", "application/xml"}
  /\ (e.ctype = "application/pdf" => e.convert = "ok")
  /\ \E x \in 1..Len(e.body) : e.body[x] # " "

\* C13: per-entry discard isolation in fetch_api_page: the loop handles every
\* entry of the page, and the returned list holds exactly the non-discarded
\* entries, each once, in feed order, with the entry's own text.
C13_DiscardIsolation ==
  prog = "batched" =>
    /\ entry_idx \in 1..(Len(entries) + 1)
    /\ (pc = "fp_done" => entry_idx = Len(entries) + 1)
    /\ \A j \in 1..Len(entries) :
          (j < entry_idx /\ Kept(entries[j])) <=>
             (\E k \in 1..Len(processed_docs) : processed_docs[k].URL = j)
    /\ \A k \in 1..Len(processed_docs) :
          /\ processed_docs[k].content = entries[processed_docs[k].URL].body
          /\ \A m \in 1..Len(processed_docs) :
                k < m => processed_docs[k].URL < processed_docs[m].URL

C13_Witness ==
  /\ pc = "fp_done" /\ Len(entries) = 2 /\ Len(processed_docs) = 1
  /\ entries[1].ctype = "application/unsupported" /\ entries[1].verwijderd = "false"
  /\ processed_docs[1].URL = 2


\* C14: crash consistency of the cursor store: when the process has crashed
\* during save_state(path, new), the following load_state(path) returns the
\* previously persisted state or the new state, never a failure or another value.
C14_CrashConsistent ==
  pc = "ls_after_crash" => loaded \in {old_state, new_state}

====
